---- MODULE Spec2Model ----
(***************************************************************************)
(* Model of the memory_storage crate: MemoryStorage<T, U>, a slot buffer   *)
(* with a free list threaded through the unused slots (src/lib.rs,         *)
(* src/slot.rs) and the growable Vec provider with push (src/vec.rs).      *)
(*                                                                         *)
(* Indices are the crate's 0-based usize indices; the buffer is a TLA+     *)
(* sequence, so index i of the buffer is element i + 1 of the sequence.    *)
(* Option<X> is a sequence of length 0 (None) or 1 (Some(x)).              *)
(***************************************************************************)
EXTENDS Integers, Sequences, FiniteSets, TLC

----------------------------------------------------------------------------
(* Bounds of the model.                                                    *)

\* largest size handed to a constructor
MaxInitSize == 3
\* largest buffer length the growable provider is let to reach
MaxCapacity == 4
\* largest number of slots the Vec gains in one reallocation
MaxGrow == 4
\* the Vec returned by Vec::with_capacity(n) may hold up to n + MaxSlack
MaxSlack == 1

\* the stored values (T is opaque to the engine)
Items == {"a", "b"}

\* ids a caller may present: every index in range and one past the largest
Ids == 0 .. MaxCapacity

\* width of usize on the smallest target Rust supports
UsizeBits == 16
UsizeModulus == 2 ^ UsizeBits

----------------------------------------------------------------------------
(* Option<X>                                                               *)

None == << >>
Some(x) == << x >>
IsSome(o) == Len(o) = 1
Unwrap(o) == o[1]

----------------------------------------------------------------------------
(* slot.rs: enum Slot<T> { Taken(T), NextFreeSlot(Option<usize>) }         *)

Taken(item) == [tag |-> "Taken", item |-> Some(item), next |-> None]
NextFreeSlot(next) == [tag |-> "NextFreeSlot", item |-> None, next |-> next]

is_taken(slot) == slot.tag = "Taken"
is_free(slot) == ~ is_taken(slot)
\* Slot::taken / Slot::taken_mut: Some(item) for a Taken slot, else None
taken(slot) == IF slot.tag = "Taken" THEN slot.item ELSE None

----------------------------------------------------------------------------
(* The buffer: AsRef<[Slot<T>]> / AsMut<[Slot<T>]>                         *)

InRange(st, i) == i >= 0 /\ i < Len(st)
At(st, i) == st[i + 1]
Put(st, i, slot) == [st EXCEPT ![i + 1] = slot]

\* the sequence e(from), e(from + 1), ..., e(from + n - 1)
SlotsFrom(from, n) == [j \in 1 .. n |-> NextFreeSlot(Some(from + j))]

\* initiate_vec without the repair of the last slot's link
initiate_vec_dangling(capacity) == SlotsFrom(0, capacity)

\* lib.rs initiate_array / vec.rs initiate_vec: slot i links to i + 1, the
\* last slot links to None
initiate_vec(capacity) ==
    LET vec == SlotsFrom(0, capacity)
    IN  IF capacity # 0 THEN Put(vec, capacity - 1, NextFreeSlot(None)) ELSE vec

initiate_array(S) ==
    LET array == SlotsFrom(0, S)
    IN  IF S # 0 THEN Put(array, S - 1, NextFreeSlot(None)) ELSE array

----------------------------------------------------------------------------
(* struct MemoryStorage as a record; vec_capacity is Vec::capacity() of    *)
(* the backing Vec (equal to the length for the two fixed providers).      *)

MemoryStorage(st, head, tail, count, cap, vcap) ==
    [storage |-> st, next_free_slot |-> head, last_free_slot |-> tail,
     taken_slots |-> count, capacity |-> cap, vec_capacity |-> vcap]

new_with_array(S) ==
    MemoryStorage(initiate_array(S),
                  IF S = 0 THEN None ELSE Some(0),
                  IF S = 0 THEN None ELSE Some(S - 1),
                  0, S, S)

new_with_fixed_capacity_vec(capacity) ==
    MemoryStorage(initiate_vec(capacity),
                  IF capacity = 0 THEN None ELSE Some(0),
                  IF capacity = 0 THEN None ELSE Some(capacity - 1),
                  0, capacity, capacity)

\* Vec::with_capacity(capacity) allocates at least capacity: allocated is
\* what the Vec reports afterwards
new_with_vec(capacity, allocated) ==
    MemoryStorage(initiate_vec(capacity),
                  IF capacity = 0 THEN None ELSE Some(0),
                  IF capacity = 0 THEN None ELSE Some(capacity - 1),
                  0, capacity, allocated)

----------------------------------------------------------------------------
(* Results of the operations.  fatal is the panic message, "" if the call  *)
(* returned; ms is the storage as the call left it.                        *)

Outcome(ms, ok, id, ret, fatal, grew) ==
    [ms |-> ms, ok |-> ok, id |-> id, ret |-> ret, fatal |-> fatal, grew |-> grew]

\* unlink_head that resets only the head when the list runs empty
unlink_head_keeping_tail(next_free_slot, last_free_slot) ==
    [next_free_slot |-> next_free_slot, last_free_slot |-> last_free_slot]

\* lib.rs fill_free_slot, lines 113-120: the free list's head and tail once
\* the slot that linked to next_free_slot has been taken off its front
unlink_head(next_free_slot, last_free_slot) ==
    IF next_free_slot = None
    THEN [next_free_slot |-> None, last_free_slot |-> None]
    ELSE [next_free_slot |-> next_free_slot, last_free_slot |-> last_free_slot]

\* lib.rs fill_free_slot
fill_free_slot(ms, free_slot, item) ==
    IF ~ InRange(ms.storage, free_slot)
    THEN Outcome(ms, FALSE, None, None, "index out of bounds", FALSE)
    ELSE IF is_taken(At(ms.storage, free_slot))
    THEN Outcome(ms, FALSE, None, None, "Slot wasn't free!", FALSE)
    ELSE
      LET next_free_slot == At(ms.storage, free_slot).next
          count == ms.taken_slots + 1
          list == unlink_head(next_free_slot, ms.last_free_slot)
      IN  Outcome([ms EXCEPT !.taken_slots = count,
                             !.next_free_slot = list.next_free_slot,
                             !.last_free_slot = list.last_free_slot,
                             !.storage = Put(ms.storage, free_slot, Taken(item))],
                  TRUE, Some(free_slot), None, "", FALSE)

\* insert that counts the item before it looks for a free slot
insert_counting(ms, item) ==
    IF ms.next_free_slot = None
    THEN Outcome([ms EXCEPT !.taken_slots = ms.taken_slots + 1],
                 FALSE, None, Some(item), "", FALSE)
    ELSE fill_free_slot(ms, Unwrap(ms.next_free_slot), item)

\* lib.rs insert: Err(InternalStorageFullError(item)) carries the item in ret
insert(ms, item) ==
    IF ms.next_free_slot = None
    THEN Outcome(ms, FALSE, None, Some(item), "", FALSE)
    ELSE fill_free_slot(ms, Unwrap(ms.next_free_slot), item)

\* removal as Vec::remove does it: the slots after id move one to the left
mem_replace_shifting(st, id) ==
    [j \in 1 .. Len(st) |->
        IF j < id + 1 THEN st[j]
        ELSE IF j < Len(st) THEN st[j + 1]
        ELSE NextFreeSlot(None)]

\* lib.rs remove, line 128: core::mem::replace leaves NextFreeSlot(None) at
\* id and every other slot where it is
mem_replace(st, id) == Put(st, id, NextFreeSlot(None))

\* remove that leaves the count as it is
decrement_forgotten(count) == count

\* lib.rs remove, line 132: `self.taken_slots -= 1` on a usize
decrement(count) == (count - 1) % UsizeModulus

\* release that, on an empty free list, sets the tail and not the head
release_tail_only(ms, id) ==
    IF IsSome(ms.last_free_slot)
    THEN
      LET free_slot == Unwrap(ms.last_free_slot)
          linked == IF is_free(At(ms.storage, free_slot))
                    THEN Put(ms.storage, free_slot, NextFreeSlot(Some(id)))
                    ELSE ms.storage
      IN  [ms EXCEPT !.storage = linked, !.last_free_slot = Some(id)]
    ELSE [ms EXCEPT !.last_free_slot = Some(id)]

\* release that puts the index at the front of the free list
release_lifo(ms, id) ==
    [ms EXCEPT !.storage = Put(ms.storage, id, NextFreeSlot(ms.next_free_slot)),
               !.next_free_slot = Some(id),
               !.last_free_slot = IF IsSome(ms.last_free_slot)
                                  THEN ms.last_free_slot ELSE Some(id)]

\* release that writes the link into the slot at the head of the free list
release_linking_head(ms, id) ==
    IF IsSome(ms.last_free_slot)
    THEN
      LET free_slot == Unwrap(ms.next_free_slot)
          linked == IF is_free(At(ms.storage, free_slot))
                    THEN Put(ms.storage, free_slot, NextFreeSlot(Some(id)))
                    ELSE ms.storage
      IN  [ms EXCEPT !.storage = linked, !.last_free_slot = Some(id)]
    ELSE [ms EXCEPT !.next_free_slot = Some(id), !.last_free_slot = Some(id)]

\* lib.rs remove, lines 133-148: the index id goes to the back of the free
\* list; the old tail's link is rewritten only if that slot is free
release(ms, id) ==
    IF IsSome(ms.last_free_slot)
    THEN
      LET free_slot == Unwrap(ms.last_free_slot)
          linked == IF is_free(At(ms.storage, free_slot))
                    THEN Put(ms.storage, free_slot, NextFreeSlot(Some(id)))
                    ELSE ms.storage
      IN  [ms EXCEPT !.storage = linked, !.last_free_slot = Some(id)]
    ELSE [ms EXCEPT !.next_free_slot = Some(id), !.last_free_slot = Some(id)]

\* remove without the is_free test: the misuse is met only by unwrap_taken,
\* after the count and the free list have been updated
remove_unchecked(ms, id, overflow_checks) ==
    IF ~ InRange(ms.storage, id)
    THEN Outcome(ms, FALSE, None, None, "index out of bounds", FALSE)
    ELSE
      LET slot == At(ms.storage, id)
          replaced == [ms EXCEPT !.storage = mem_replace(ms.storage, id)]
          counted == [replaced EXCEPT !.taken_slots = decrement(ms.taken_slots)]
      IN  IF ms.taken_slots = 0 /\ overflow_checks
          THEN Outcome(replaced, FALSE, None, None, "attempt to subtract with overflow", FALSE)
          ELSE IF IsSome(ms.last_free_slot)
                  /\ ~ InRange(counted.storage, Unwrap(ms.last_free_slot))
          THEN Outcome(counted, FALSE, None, None, "Slot should exist!", FALSE)
          ELSE IF is_free(slot)
          THEN Outcome(release(counted, id), FALSE, None, None, "Slot wasn't taken!", FALSE)
          ELSE Outcome(release(counted, id), TRUE, Some(id), taken(slot), "", FALSE)

\* lib.rs remove.  The slot is replaced by NextFreeSlot(None) before the
\* is_free test.  overflow_checks is the build's setting for
\* `taken_slots -= 1`: a panic when TRUE, a wrap-around when FALSE.
remove(ms, id, overflow_checks) ==
    IF ~ InRange(ms.storage, id)
    THEN Outcome(ms, FALSE, None, None, "index out of bounds", FALSE)
    ELSE
      LET slot == At(ms.storage, id)
          replaced == [ms EXCEPT !.storage = mem_replace(ms.storage, id)]
      IN  IF is_free(slot)
          THEN Outcome(replaced, FALSE, None, None, "No item stored at index!", FALSE)
          ELSE IF ms.taken_slots = 0 /\ overflow_checks
          THEN Outcome(replaced, FALSE, None, None, "attempt to subtract with overflow", FALSE)
          ELSE
            LET counted == [replaced EXCEPT !.taken_slots = decrement(ms.taken_slots)]
            IN  IF IsSome(ms.last_free_slot)
                   /\ ~ InRange(counted.storage, Unwrap(ms.last_free_slot))
                THEN Outcome(counted, FALSE, None, None, "Slot should exist!", FALSE)
                ELSE Outcome(release(counted, id), TRUE, Some(id), taken(slot), "", FALSE)

\* get with the bounds check one short of the buffer's length
get_short(ms, id) ==
    IF id >= 0 /\ id < Len(ms.storage) - 1 THEN taken(At(ms.storage, id)) ELSE None

\* lib.rs get: storage.get(id.0)?.taken()
get(ms, id) ==
    IF InRange(ms.storage, id) THEN taken(At(ms.storage, id)) ELSE None

\* get_mut with the bounds check one short of the buffer's length
get_mut_short(ms, id) ==
    IF id >= 0 /\ id < Len(ms.storage) - 1 THEN taken(At(ms.storage, id)) ELSE None

\* lib.rs get_mut: the same lookup, yielding a mutable reference
get_mut(ms, id) ==
    IF InRange(ms.storage, id) THEN taken(At(ms.storage, id)) ELSE None

\* a write of item through the reference get_mut(id) returned
write_through(ms, id, item) ==
    IF IsSome(get_mut(ms, id))
    THEN [ms EXCEPT !.storage = Put(ms.storage, id, Taken(item))]
    ELSE ms

\* clear that relinks the slots and leaves the count
clear_keeping_count(ms) ==
    LET capacity == ms.capacity
    IN  IF capacity = 0
        THEN Outcome(ms, TRUE, None, None, "", FALSE)
        ELSE
          LET looped == [i \in 1 .. Len(ms.storage) |->
                            IF i <= capacity THEN NextFreeSlot(Some(i))
                            ELSE ms.storage[i]]
              st == Put(looped, capacity - 1, NextFreeSlot(None))
          IN  Outcome([ms EXCEPT !.storage = st,
                                 !.next_free_slot = Some(0),
                                 !.last_free_slot = Some(capacity - 1)],
                      TRUE, None, None, "", FALSE)

\* lib.rs clear: the loop over 0..capacity, then the last slot
clear(ms) ==
    LET capacity == ms.capacity
    IN  IF capacity = 0
        THEN Outcome(ms, TRUE, None, None, "", FALSE)
        ELSE IF capacity > Len(ms.storage)
        THEN Outcome(ms, FALSE, None, None, "index out of bounds", FALSE)
        ELSE
          LET looped == [i \in 1 .. Len(ms.storage) |->
                            IF i <= capacity THEN NextFreeSlot(Some(i))
                            ELSE ms.storage[i]]
              st == Put(looped, capacity - 1, NextFreeSlot(None))
          IN  Outcome([ms EXCEPT !.storage = st,
                                 !.next_free_slot = Some(0),
                                 !.last_free_slot = Some(capacity - 1),
                                 !.taken_slots = 0],
                      TRUE, None, None, "", FALSE)

\* vec.rs push, lines 43-50: Vec::push at full allocation makes the Vec
\* reallocate to reallocated slots; with room to spare the allocation is
\* kept.  The pop restores the length, so only Vec::capacity() changes.
grow_vec(ms, reallocated) ==
    IF Len(ms.storage) = ms.vec_capacity
    THEN [ms EXCEPT !.vec_capacity = reallocated]
    ELSE ms

\* the new region taken to start at index 0 whatever the old capacity
starting_index_zero(old_capacity, new_capacity) == 0

\* a growth step that adds the one slot the push asked for
slots_to_insert_single(old_capacity, new_capacity) == 1

\* the new region taken to start one past the old capacity
starting_index_next(old_capacity, new_capacity) == old_capacity + 1

\* the zero-capacity count used for every old capacity
slots_to_insert_from_zero(old_capacity, new_capacity) == new_capacity

\* vec.rs push, lines 51-55: where the new region starts and how many slots
\* it has
starting_index(old_capacity, new_capacity) ==
    IF old_capacity # 0 THEN old_capacity ELSE 0

slots_to_insert(old_capacity, new_capacity) ==
    IF old_capacity # 0 THEN new_capacity - old_capacity ELSE new_capacity

\* vec.rs push, lines 43-77: the growth step, from Vec::push to
\* `self.capacity = new_capacity`.  In the Some branch of the match on
\* last_free_slot the code rewrites the old tail's link and assigns neither
\* next_free_slot nor last_free_slot.
growth(ms, reallocated) ==
    LET vec == grow_vec(ms, reallocated)
        old_capacity == ms.capacity
        new_capacity == vec.vec_capacity
        start == starting_index(old_capacity, new_capacity)
        count == slots_to_insert(old_capacity, new_capacity)
    IN  IF count < 0
        THEN [ms |-> vec, fatal |-> "attempt to subtract with overflow"]
        ELSE
          LET pushed == vec.storage \o SlotsFrom(start, count)
              allocated == IF Len(pushed) > vec.vec_capacity
                           THEN Len(pushed) ELSE vec.vec_capacity
          IN  IF Len(pushed) = 0
              THEN [ms |-> vec, fatal |-> "This exists!'"]
              ELSE
                LET ended == Put(pushed, Len(pushed) - 1, NextFreeSlot(None))
                    region == [vec EXCEPT !.storage = ended,
                                          !.vec_capacity = allocated]
                IN  IF ms.last_free_slot = None
                    THEN [ms |-> [region EXCEPT
                                    !.next_free_slot = Some(start),
                                    !.last_free_slot = Some(new_capacity - 1),
                                    !.capacity = new_capacity],
                          fatal |-> ""]
                    ELSE IF ~ InRange(ended, Unwrap(ms.last_free_slot))
                    THEN [ms |-> region,
                          fatal |-> "This was the original last_free_slot!"]
                    ELSE [ms |-> [region EXCEPT
                                    !.storage = Put(ended, Unwrap(ms.last_free_slot),
                                                    NextFreeSlot(Some(start))),
                                    !.capacity = new_capacity],
                          fatal |-> ""]

\* push that grows the buffer whether or not a slot is free
push_growing(ms, item, reallocated) ==
    LET grown == growth(ms, reallocated)
        second == insert(grown.ms, item)
    IN  IF grown.fatal # ""
        THEN Outcome(grown.ms, FALSE, None, None, grown.fatal, TRUE)
        ELSE [second EXCEPT !.grew = TRUE]

\* vec.rs push: insert, and on Err the growth step and the insert again
push(ms, item, reallocated) ==
    LET first == insert(ms, item)
    IN  IF first.ok \/ first.fatal # ""
        THEN first
        ELSE
          LET rejected == Unwrap(first.ret)
              grown == growth(ms, reallocated)
              second == insert(grown.ms, rejected)
          IN  IF grown.fatal # ""
              THEN Outcome(grown.ms, FALSE, None, None, grown.fatal, TRUE)
              ELSE IF second.ok
              THEN [second EXCEPT !.grew = TRUE]
              ELSE Outcome(second.ms, FALSE, None, None,
                           IF second.fatal # "" THEN second.fatal
                           ELSE "We just made space available!", TRUE)

----------------------------------------------------------------------------
(* The state: one MemoryStorage value and what its caller has seen.        *)

VARIABLES
    kind,            \* the provider: "array", "fixed_vec" or "vec"
    storage,         \* MemoryStorage.storage
    next_free_slot,  \* MemoryStorage.next_free_slot (head of the free list)
    last_free_slot,  \* MemoryStorage.last_free_slot (tail of the free list)
    taken_slots,     \* MemoryStorage.taken_slots
    capacity,        \* MemoryStorage.capacity
    vec_capacity,    \* Vec::capacity() of the backing buffer
    fatal,           \* the panic that ended the program, "" while it runs
    last,            \* the last call: its name, arguments and result
    pre,             \* the MemoryStorage value before the last call
    before,          \* the call before the last one, and the count before it
    issued           \* per index, the value whose Id the caller still holds

vars == << kind, storage, next_free_slot, last_free_slot, taken_slots,
           capacity, vec_capacity, fatal, last, pre, before, issued >>

Self == MemoryStorage(storage, next_free_slot, last_free_slot, taken_slots,
                      capacity, vec_capacity)

Call(op, item, id, out) ==
    [op |-> op, item |-> item, arg |-> id, ok |-> out.ok, id |-> out.id,
     ret |-> out.ret, grew |-> out.grew]

NoCall == [op |-> "new", item |-> None, arg |-> None, ok |-> TRUE, id |-> None,
           ret |-> None, grew |-> FALSE]

\* what is kept of a call once another call has followed it: an insert or
\* a remove with its result and the count it started from
Earlier(call, ms) ==
    IF call.op \in {"insert", "remove"}
    THEN [op |-> call.op, ok |-> call.ok, id |-> call.id, item |-> call.item,
          taken_slots |-> ms.taken_slots]
    ELSE [op |-> "other", ok |-> TRUE, id |-> None, item |-> None,
          taken_slots |-> 0]

Install(ms) ==
    /\ storage' = ms.storage
    /\ next_free_slot' = ms.next_free_slot
    /\ last_free_slot' = ms.last_free_slot
    /\ taken_slots' = ms.taken_slots
    /\ capacity' = ms.capacity
    /\ vec_capacity' = ms.vec_capacity

Construct(k, ms) ==
    /\ kind = k
    /\ storage = ms.storage
    /\ next_free_slot = ms.next_free_slot
    /\ last_free_slot = ms.last_free_slot
    /\ taken_slots = ms.taken_slots
    /\ capacity = ms.capacity
    /\ vec_capacity = ms.vec_capacity
    /\ fatal = ""
    /\ last = NoCall
    /\ pre = ms
    /\ before = Earlier(NoCall, ms)
    /\ issued = [i \in Ids |-> None]

Init ==
    \E n \in 0 .. MaxInitSize :
        \/ Construct("array", new_with_array(n))
        \/ Construct("fixed_vec", new_with_fixed_capacity_vec(n))
        \/ \E slack \in 0 .. MaxSlack :
              /\ n + slack <= MaxCapacity
              /\ Construct("vec", new_with_vec(n, n + slack))

\* the effect of a call on the caller's view: out is what the call did
Return(op, item, id, out) ==
    /\ Install(out.ms)
    /\ fatal' = out.fatal
    /\ last' = Call(op, item, id, out)
    /\ pre' = Self
    /\ before' = Earlier(last, pre)
    /\ UNCHANGED kind

Insert(item) ==
    /\ fatal = ""
    /\ LET out == insert(Self, item)
       IN  /\ Return("insert", Some(item), None, out)
           /\ issued' = IF out.ok
                        THEN [issued EXCEPT ![Unwrap(out.id)] = Some(item)]
                        ELSE issued

Remove(id) ==
    /\ fatal = ""
    /\ \E overflow_checks \in BOOLEAN :
         LET out == remove(Self, id, overflow_checks)
         IN  /\ Return("remove", None, Some(id), out)
             /\ issued' = IF out.ok THEN [issued EXCEPT ![id] = None] ELSE issued

Get(id) ==
    /\ fatal = ""
    /\ Return("get", None, Some(id), Outcome(Self, TRUE, None, get(Self, id), "", FALSE))
    /\ UNCHANGED issued

GetMut(id, item) ==
    /\ fatal = ""
    /\ LET found == get_mut(Self, id)
       IN  /\ Return("get_mut", Some(item), Some(id),
                     Outcome(write_through(Self, id, item), TRUE, None, found, "", FALSE))
           /\ issued' = IF IsSome(found)
                        THEN [issued EXCEPT ![id] = Some(item)]
                        ELSE issued

Clear ==
    /\ fatal = ""
    /\ Return("clear", None, None, clear(Self))
    /\ issued' = [i \in Ids |-> None]

\* the capacities a reallocation at length len may report
Reallocations(len) == { c \in len + 1 .. len + MaxGrow : c <= MaxCapacity }

\* push reaches Vec::push with the allocation full
NeedsReallocation == next_free_slot = None /\ Len(storage) = vec_capacity

Push(item) ==
    /\ fatal = ""
    /\ kind = "vec"
    /\ \E reallocated \in IF NeedsReallocation
                          THEN Reallocations(Len(storage))
                          ELSE {vec_capacity} :
         LET out == push(Self, item, reallocated)
         IN  /\ Return("push", Some(item), None, out)
             /\ issued' = IF out.ok
                          THEN [issued EXCEPT ![Unwrap(out.id)] = Some(item)]
                          ELSE issued

Next ==
    \/ \E item \in Items : Insert(item)
    \/ \E id \in Ids : Remove(id)
    \/ \E id \in Ids : Get(id)
    \/ \E id \in Ids, item \in Items : GetMut(id, item)
    \/ Clear
    \/ \E item \in Items : Push(item)

Spec == Init /\ [][Next]_vars

----------------------------------------------------------------------------
(* Views of the state used by the properties.                              *)

Indices(ms) == 0 .. Len(ms.storage) - 1
TakenIndices(ms) == { i \in Indices(ms) : is_taken(At(ms.storage, i)) }
FreeIndices(ms) == { i \in Indices(ms) : is_free(At(ms.storage, i)) }

\* the indices met by following the links from o, at most fuel of them
RECURSIVE Walk(_, _, _)
Walk(st, o, fuel) ==
    IF o = None \/ fuel = 0
    THEN << >>
    ELSE IF ~ InRange(st, Unwrap(o))
    THEN << Unwrap(o) >>
    ELSE << Unwrap(o) >> \o Walk(st, At(st, Unwrap(o)).next, fuel - 1)

\* the free list of ms as the sequence of indices from its head
FreeList(ms) == Walk(ms.storage, ms.next_free_slot, Len(ms.storage) + 1)

Range(seq) == { seq[j] : j \in 1 .. Len(seq) }
NoRepeat(seq) == \A a, b \in 1 .. Len(seq) : a # b => seq[a] # seq[b]

Running == fatal = ""

----------------------------------------------------------------------------
(* C1  Id stability: an Id k returned by insert or push with value x keeps *)
(* resolving to x through get(k) under every later insert, push, get and   *)
(* remove of other ids, pushes that grow the buffer included, until        *)
(* remove(k) or clear(); no call on another id moves, overwrites or        *)
(* invalidates the entry at k.                                             *)

IdStability ==
    \A k \in Ids : IsSome(issued[k]) => get(Self, k) = issued[k]

\* a push has grown a buffer that held two different values, and every Id
\* issued before the growth still resolves to its value
IdStabilityWitness ==
    /\ last.op = "push" /\ last.grew /\ last.ok
    /\ pre.capacity >= 2
    /\ \A k \in Indices(pre) : IsSome(issued[k]) /\ get(Self, k) = issued[k]
    /\ issued[0] # issued[1]

----------------------------------------------------------------------------
(* C2  Round trip: when insert(x) succeeds with Id k, get(k) returns x     *)
(* right after it, a remove(k) that follows returns x, and after that      *)
(* remove capacity() is unchanged and taken_slots() is what it was before  *)
(* the insert.                                                             *)

RemoveFollowsInsert ==
    /\ last.op = "remove"
    /\ before.op = "insert" /\ before.ok
    /\ last.arg = before.id

RoundTrip ==
    /\ (last.op = "insert" /\ last.ok) =>
          /\ Running
          /\ get(Self, Unwrap(last.id)) = last.item
    /\ RemoveFollowsInsert =>
          /\ Running
          /\ last.ok
          /\ last.ret = before.item
          /\ capacity = pre.capacity
          /\ taken_slots = before.taken_slots
          /\ pre.taken_slots = before.taken_slots + 1

\* the remove of the Id the insert just returned, with other entries around
RoundTripWitness ==
    /\ RemoveFollowsInsert
    /\ last.ok
    /\ taken_slots >= 1
    /\ FreeIndices(Self) # {Unwrap(last.arg)}

----------------------------------------------------------------------------
(* C3  A failed insert hands back exactly the value passed in and leaves   *)
(* every slot, next_free_slot, last_free_slot, taken_slots and capacity    *)
(* unchanged.                                                              *)

InsertFull == last.op = "insert" /\ ~ last.ok

FullInsertChangesNothing ==
    InsertFull =>
        /\ Running
        /\ last.ret = last.item
        /\ last.id = None
        /\ storage = pre.storage
        /\ next_free_slot = pre.next_free_slot
        /\ last_free_slot = pre.last_free_slot
        /\ taken_slots = pre.taken_slots
        /\ capacity = pre.capacity

\* an insert was rejected by a full buffer of at least two entries
FullInsertChangesNothingWitness ==
    /\ InsertFull
    /\ capacity >= 2
    /\ taken_slots = capacity

----------------------------------------------------------------------------
(* C4  insert fails with the storage-full error exactly when               *)
(* taken_slots() = capacity(); with a Free slot it succeeds, adds exactly  *)
(* one to taken_slots() and returns the index of a slot that was Free, so  *)
(* the Ids of the live entries are pairwise distinct.                      *)

HeldIds == { k \in Ids : IsSome(issued[k]) }

InsertFailsIffFull ==
    /\ Running =>
          \A item \in Items :
              (~ insert(Self, item).ok) <=> (taken_slots = capacity)
    /\ last.op = "insert" =>
          /\ Running
          /\ (~ last.ok) <=> (pre.taken_slots = pre.capacity)
          /\ FreeIndices(pre) # {} =>
                /\ last.ok
                /\ taken_slots = pre.taken_slots + 1
                /\ Unwrap(last.id) \in FreeIndices(pre)
                /\ Unwrap(last.id) \notin TakenIndices(pre)
    /\ Running => Cardinality(HeldIds) = taken_slots

\* an insert took a slot that an earlier remove had freed, next to live
\* entries
InsertFailsIffFullWitness ==
    /\ last.op = "insert" /\ last.ok
    /\ before.op = "remove" /\ before.ok
    /\ taken_slots >= 2
    /\ taken_slots < capacity

----------------------------------------------------------------------------
(* C5  On a growable instance push succeeds in every reachable state: it   *)
(* returns an Id, adds exactly one to taken_slots(), and the insert after  *)
(* the growth step never reports exhaustion.                               *)

\* the capacities the Vec may report after a push at its current length
Regrowths(ms) ==
    IF ms.next_free_slot = None /\ Len(ms.storage) = ms.vec_capacity
    THEN Len(ms.storage) + 1 .. Len(ms.storage) + MaxGrow
    ELSE {ms.vec_capacity}

PushSucceeds ==
    /\ last.op = "push" =>
          /\ Running
          /\ last.ok
          /\ IsSome(last.id)
          /\ taken_slots = pre.taken_slots + 1
    /\ (Running /\ kind = "vec") =>
          \A item \in Items, reallocated \in Regrowths(Self) :
              LET out == push(Self, item, reallocated)
              IN  /\ out.ok
                  /\ out.fatal = ""
                  /\ IsSome(out.id)
                  /\ out.ms.taken_slots = taken_slots + 1

\* a push grew a non-empty buffer right after an insert took its last free
\* slot
PushSucceedsWitness ==
    /\ last.op = "push" /\ last.grew /\ last.ok
    /\ pre.capacity >= 1
    /\ before.op = "insert" /\ before.ok

----------------------------------------------------------------------------
(* C6  Count invariant: in every reachable state taken_slots() is the      *)
(* number of Taken slots of the buffer, which is capacity() minus the      *)
(* number of Free slots, and is at most capacity(); the decrement in       *)
(* remove never underflows.                                                *)

CountInvariant ==
    /\ taken_slots = Cardinality(TakenIndices(Self))
    /\ taken_slots = capacity - Cardinality(FreeIndices(Self))
    /\ taken_slots <= capacity
    /\ fatal # "attempt to subtract with overflow"

\* a remove has brought the count of a non-empty buffer back to zero
CountInvariantWitness ==
    /\ last.op = "remove" /\ last.ok
    /\ capacity > 1
    /\ pre.taken_slots = 1
    /\ taken_slots = 0

----------------------------------------------------------------------------
(* C7  Free-list well-formedness: while the program runs, following the    *)
(* links from head visits every Free slot exactly once and no Taken slot,  *)
(* has no cycle, and ends at the slot tail names, whose link is None; head *)
(* and tail are both None exactly when no slot is Free and both Some       *)
(* otherwise.                                                              *)

----------------------------------------------------------------------------
(* C8  FIFO reuse: the free list is a queue of indices; remove(id) appends *)
(* id's index at its back and insert takes the index at its front, so      *)
(* inserts receive freed indices oldest-freed first; with an empty free    *)
(* list, remove(k) followed by insert returns k.                           *)

FifoReuse ==
    /\ (last.op = "remove" /\ last.ok) =>
          FreeList(Self) = Append(FreeList(pre), Unwrap(last.arg))
    /\ (last.op = "insert" /\ last.ok) =>
          FreeList(pre) = << Unwrap(last.id) >> \o FreeList(Self)
    /\ (/\ last.op = "insert" /\ last.ok
        /\ before.op = "remove" /\ before.ok
        /\ Len(FreeList(pre)) = 1) => last.id = before.id

\* the capacity-3 example: after remove(1) and remove(0) on a full buffer
\* the inserts returned 1 and then 0
FifoReuseWitness ==
    /\ capacity = 3
    /\ taken_slots = 3
    /\ last.op = "insert" /\ last.id = Some(0)
    /\ before.op = "insert" /\ before.id = Some(1)
    /\ before.taken_slots = 1

----------------------------------------------------------------------------
(* C9  Capacity tracking: capacity() is the buffer's current length in     *)
(* every reachable state; after a push that grew the buffer it is the      *)
(* allocated capacity the Vec reported in the growth step, whatever amount *)
(* the Vec grew by; capacity() never decreases.                            *)

CapacityTracking ==
    /\ capacity = Len(storage)
    /\ capacity >= pre.capacity
    /\ (last.op = "push" /\ last.grew) =>
          /\ capacity = vec_capacity
          /\ capacity > pre.capacity

\* a push grew a non-empty buffer by more than one slot
CapacityTrackingWitness ==
    /\ last.op = "push" /\ last.grew
    /\ pre.capacity >= 1
    /\ capacity >= pre.capacity + 2

----------------------------------------------------------------------------
(* C10  clear() on capacity n > 0 leaves capacity() = n, taken_slots() =   *)
(* 0, head = Some(0), tail = Some(n - 1), slot i = Free(Some(i + 1)) for   *)
(* i < n - 1 and slot n - 1 = Free(None), so get is empty for every index; *)
(* on capacity 0 it changes nothing.                                       *)

ClearResets ==
    last.op = "clear" =>
        /\ Running
        /\ capacity = pre.capacity
        /\ Len(storage) = Len(pre.storage)
        /\ IF pre.capacity = 0
           THEN Self = pre
           ELSE /\ taken_slots = 0
                /\ next_free_slot = Some(0)
                /\ last_free_slot = Some(capacity - 1)
                /\ \A i \in 0 .. capacity - 2 :
                      At(storage, i) = NextFreeSlot(Some(i + 1))
                /\ At(storage, capacity - 1) = NextFreeSlot(None)
                /\ \A i \in Ids : get(Self, i) = None

\* a clear of a buffer that held entries and whose free list did not start
\* at index 0
ClearResetsWitness ==
    /\ last.op = "clear"
    /\ pre.taken_slots >= 2
    /\ IsSome(pre.next_free_slot)
    /\ pre.next_free_slot # Some(0)

----------------------------------------------------------------------------
(* C11  remove(id) on a slot that is not Taken - removed before, never     *)
(* inserted, or out of range - always ends in the fatal error: it returns  *)
(* no value, does not decrement taken_slots and does not append the index  *)
(* to the free list a second time.                                         *)

\* the last call was a remove of an id that held no entry
RemoveMisused ==
    /\ last.op = "remove"
    /\ \/ ~ InRange(pre.storage, Unwrap(last.arg))
       \/ At(pre.storage, Unwrap(last.arg)).tag # "Taken"

RemoveMisuseIsFatal ==
    RemoveMisused =>
        /\ fatal # ""
        /\ ~ last.ok
        /\ last.ret = None
        /\ taken_slots = pre.taken_slots
        /\ next_free_slot = pre.next_free_slot
        /\ last_free_slot = pre.last_free_slot
        /\ \A i \in Indices(pre) :
              i # Unwrap(last.arg) => At(storage, i) = At(pre.storage, i)
        /\ NoRepeat(FreeList(Self))

\* the second remove of the same Id
RemoveMisuseIsFatalWitness ==
    /\ RemoveMisused
    /\ before.op = "remove" /\ before.ok
    /\ before.id = last.arg
    /\ fatal = "No item stored at index!"

----------------------------------------------------------------------------
(* C12  No partial failure: a mutator (insert, remove, push, clear) that   *)
(* signals failure leaves the buffer contents, head, tail, taken_slots and *)
(* capacity exactly as they were before the call; in particular a          *)
(* remove(id) that fails on a Free slot leaves that slot's link as it was. *)

MutatorFailed ==
    /\ last.op \in {"insert", "remove", "push", "clear"}
    /\ (~ last.ok \/ fatal # "")

NoPartialFailure ==
    MutatorFailed =>
        /\ storage = pre.storage
        /\ next_free_slot = pre.next_free_slot
        /\ last_free_slot = pre.last_free_slot
        /\ taken_slots = pre.taken_slots
        /\ capacity = pre.capacity

----------------------------------------------------------------------------
(* C13  get(id) and get_mut(id) never fail fatally: for an index at or     *)
(* past the buffer length, or a Free slot, they return the empty result;   *)
(* for a Taken slot they return its value; neither changes a slot's        *)
(* variant, head, tail, taken_slots or capacity.                           *)

Lookup == last.op \in {"get", "get_mut"}

LookupIsTotal ==
    Lookup =>
        LET id == Unwrap(last.arg)
        IN  /\ Running
            /\ last.ok
            /\ IF InRange(pre.storage, id) /\ At(pre.storage, id).tag = "Taken"
               THEN last.ret = At(pre.storage, id).item
               ELSE last.ret = None /\ storage = pre.storage
            /\ last.op = "get" => storage = pre.storage
            /\ Len(storage) = Len(pre.storage)
            /\ \A i \in Indices(pre) :
                  /\ At(storage, i).tag = At(pre.storage, i).tag
                  /\ At(storage, i).next = At(pre.storage, i).next
                  /\ i # id => At(storage, i) = At(pre.storage, i)
            /\ next_free_slot = pre.next_free_slot
            /\ last_free_slot = pre.last_free_slot
            /\ taken_slots = pre.taken_slots
            /\ capacity = pre.capacity

\* a get_mut of the entry at the buffer's last index, next to free slots,
\* through which another value was written
LookupIsTotalWitness ==
    /\ last.op = "get_mut"
    /\ Unwrap(last.arg) = Len(storage) - 1
    /\ IsSome(last.ret)
    /\ last.ret # last.item
    /\ FreeIndices(Self) # {}

----------------------------------------------------------------------------
(* The growth step of the last call, when that call was a push that grew   *)
(* the buffer: the storage as the step left it, before the insert that     *)
(* follows it.  vec_capacity is what the Vec reported in that step.        *)

Grew == last.op = "push" /\ last.grew
Grown == growth(pre, vec_capacity).ms

----------------------------------------------------------------------------
(* C14  Growth range policy: the region a growth step initialises is       *)
(* exactly [old_capacity, new_capacity): it starts at old_capacity, has    *)
(* new_capacity - old_capacity slots, slot j is Free(Some(j + 1)) for      *)
(* j < new_capacity - 1 and slot new_capacity - 1 is Free(None); no slot   *)
(* below old_capacity is overwritten; the same holds for old_capacity 0.   *)

GrowthRange ==
    Grew =>
        LET old_capacity == pre.capacity
            new_capacity == Grown.capacity
        IN  /\ new_capacity = vec_capacity
            /\ new_capacity > old_capacity
            /\ starting_index(old_capacity, new_capacity) = old_capacity
            /\ slots_to_insert(old_capacity, new_capacity)
                  = new_capacity - old_capacity
            /\ Len(Grown.storage) = new_capacity
            /\ \A j \in old_capacity .. new_capacity - 2 :
                  At(Grown.storage, j) = NextFreeSlot(Some(j + 1))
            /\ At(Grown.storage, new_capacity - 1) = NextFreeSlot(None)
            /\ \A j \in 0 .. old_capacity - 1 :
                  At(Grown.storage, j) = At(pre.storage, j)
            /\ Self = insert(Grown, Unwrap(last.item)).ms
            /\ \A j \in 0 .. old_capacity - 1 :
                  At(storage, j) = At(pre.storage, j)
            /\ \A j \in old_capacity + 1 .. new_capacity - 1 :
                  At(storage, j) = At(Grown.storage, j)

\* a growth from capacity 0 to at least three slots
GrowthRangeWitness ==
    /\ Grew
    /\ pre.capacity = 0
    /\ capacity >= 3

----------------------------------------------------------------------------
(* The growth step as a function of the MemoryStorage value it is given.   *)
(* push is defined on every MemoryStorage<T, SlotVec<T>>; GrowthSpec       *)
(* applies it to every full buffer whose next_free_slot is None, with      *)
(* last_free_slot None or Some(t), whether or not insert, remove, push and *)
(* clear can produce that value (C20 is about which of them they can).     *)

\* the buffers of length n with every slot Taken
FullBuffers(n) == [1 .. n -> { Taken(item) : item \in Items }]

Tails(n) == {None} \cup { Some(t) : t \in 0 .. n - 1 }

GrowthInit ==
    \E n \in 0 .. MaxInitSize, slack \in 0 .. MaxSlack :
      \E st \in FullBuffers(n), tail \in Tails(n) :
        /\ n + slack <= MaxCapacity
        /\ Construct("vec", MemoryStorage(st, None, tail, n, n, n + slack))

GrowthNext == \E item \in Items : Push(item)

GrowthSpec == GrowthInit /\ [][GrowthNext]_vars

----------------------------------------------------------------------------
(* C15  Growth splice: the growth step ends with tail = Some(new_capacity  *)
(* - 1) whatever the previous tail was.  With tail None, head becomes      *)
(* Some(old_capacity); with tail Some(t), slot t's link becomes            *)
(* Some(old_capacity), head is kept and tail is still set to               *)
(* Some(new_capacity - 1).                                                 *)

----------------------------------------------------------------------------
(* A buffer filled in index order up to k: the slots below k are Taken,    *)
(* the slots from k on are Free and linked in ascending order, the last    *)
(* one to None; head is Some(k) and tail the last index, or both are None  *)
(* when no slot is left.                                                   *)

Filled(ms, k) ==
    LET n == Len(ms.storage)
    IN  /\ k <= n
        /\ ms.capacity = n
        /\ ms.taken_slots = k
        /\ \A i \in 0 .. k - 1 : is_taken(At(ms.storage, i))
        /\ \A i \in k .. n - 2 : At(ms.storage, i) = NextFreeSlot(Some(i + 1))
        /\ k < n => At(ms.storage, n - 1) = NextFreeSlot(None)
        /\ ms.next_free_slot = IF k < n THEN Some(k) ELSE None
        /\ ms.last_free_slot = IF k < n THEN Some(n - 1) ELSE None

----------------------------------------------------------------------------
(* C16  Initial state: each constructor with size n yields capacity() = n, *)
(* taken_slots() = 0, every slot Free with slot i linking to i + 1 and the *)
(* last slot to None, head Some(0) and tail Some(n - 1), or head and tail  *)
(* None for n = 0; so the first n inserts return the Ids 0, 1, ..., n - 1  *)
(* in that order.                                                          *)

InitialState ==
    /\ last.op = "new" =>
          /\ Filled(Self, 0)
          /\ taken_slots = 0
          /\ capacity = Len(storage)
          /\ capacity = 0 => (next_free_slot = None /\ last_free_slot = None)
          /\ capacity > 0 => (/\ next_free_slot = Some(0)
                              /\ last_free_slot = Some(capacity - 1))
    /\ \A k \in 0 .. pre.capacity - 1 :
          (last.op = "insert" /\ Filled(pre, k)) =>
              /\ last.ok
              /\ last.id = Some(k)
              /\ Filled(Self, k + 1)

\* the third of the first three inserts into a fresh buffer of size 3
InitialStateWitness ==
    /\ kind \in {"array", "fixed_vec"}
    /\ capacity = 3
    /\ last.op = "insert" /\ last.id = Some(2)
    /\ Filled(pre, 2)
    /\ before.op = "insert" /\ before.id = Some(1)
    /\ before.taken_slots = 1

----------------------------------------------------------------------------
(* C17  A push that grows the buffer from old_capacity to new_capacity     *)
(* returns Id(old_capacity); without a remove in between, the next         *)
(* new_capacity - old_capacity - 1 inserts return old_capacity + 1, ...,   *)
(* new_capacity - 1 in ascending order and the insert after them fails;    *)
(* the same for old_capacity = 0, where the push returns Id(0).            *)

GrowthIds ==
    /\ Grew =>
          /\ last.ok
          /\ last.id = Some(pre.capacity)
          /\ Filled(pre, pre.capacity)
          /\ Filled(Self, pre.capacity + 1)
          /\ capacity > pre.capacity
    /\ (kind = "vec" /\ last.op = "insert") =>
          /\ \A k \in 0 .. pre.capacity - 1 :
                Filled(pre, k) => (last.id = Some(k) /\ Filled(Self, k + 1))
          /\ Filled(pre, pre.capacity) => (~ last.ok /\ Self = pre)

\* the insert that fails once the inserts after a growth have used up the
\* new region
GrowthIdsWitness ==
    /\ kind = "vec"
    /\ last.op = "insert" /\ ~ last.ok
    /\ Filled(pre, capacity)
    /\ capacity > MaxInitSize
    /\ before.op = "insert" /\ before.ok
    /\ before.id = Some(capacity - 1)

----------------------------------------------------------------------------
(* C18  push on a growable instance with a Free slot is exactly insert: it *)
(* returns the id at the head of the free list and leaves capacity() and   *)
(* the buffer length unchanged; the buffer grows only when taken_slots()   *)
(* = capacity() at the time of the push.                                   *)

PushIsInsert ==
    last.op = "push" =>
        /\ FreeIndices(pre) # {} =>
              /\ ~ last.grew
              /\ last.ok
              /\ last.id = pre.next_free_slot
              /\ last.id = insert(pre, Unwrap(last.item)).id
              /\ Self = insert(pre, Unwrap(last.item)).ms
              /\ capacity = pre.capacity
              /\ Len(storage) = Len(pre.storage)
              /\ vec_capacity = pre.vec_capacity
        /\ last.grew => pre.taken_slots = pre.capacity
        /\ Len(storage) # Len(pre.storage) => pre.taken_slots = pre.capacity
        /\ pre.taken_slots = pre.capacity => last.grew

\* a push into a slot that a remove had freed, next to live entries
PushIsInsertWitness ==
    /\ last.op = "push" /\ ~ last.grew
    /\ before.op = "remove" /\ before.ok
    /\ last.id = before.id
    /\ taken_slots >= 2

----------------------------------------------------------------------------
(* C19  Frame of insert and remove: a successful insert changes only the   *)
(* slot at the old head (Free to Taken), head, tail and taken_slots; a     *)
(* successful remove(id) changes only the slot at id (Taken to             *)
(* Free(None)), the link of the slot that was tail before the call, head,  *)
(* tail and taken_slots.  Every other slot and capacity stay as they were. *)

Unchanged(i) == At(storage, i) = At(pre.storage, i)

MutatorFrame ==
    /\ (last.op = "insert" /\ last.ok) =>
          LET head == Unwrap(pre.next_free_slot)
          IN  /\ is_free(At(pre.storage, head))
              /\ At(storage, head) = Taken(Unwrap(last.item))
              /\ \A i \in Indices(pre) : i # head => Unchanged(i)
              /\ Len(storage) = Len(pre.storage)
              /\ capacity = pre.capacity
              /\ vec_capacity = pre.vec_capacity
    /\ (last.op = "remove" /\ last.ok) =>
          LET id == Unwrap(last.arg)
          IN  /\ is_taken(At(pre.storage, id))
              /\ At(storage, id) = NextFreeSlot(None)
              /\ \A i \in Indices(pre) :
                    (i # id /\ pre.last_free_slot # Some(i)) => Unchanged(i)
              /\ IsSome(pre.last_free_slot) =>
                    At(storage, Unwrap(pre.last_free_slot)) = NextFreeSlot(Some(id))
              /\ Len(storage) = Len(pre.storage)
              /\ capacity = pre.capacity
              /\ vec_capacity = pre.vec_capacity

\* a remove that linked the old tail to the freed slot, with the head of
\* the free list elsewhere and a live entry left
MutatorFrameWitness ==
    /\ last.op = "remove" /\ last.ok
    /\ IsSome(pre.last_free_slot)
    /\ pre.next_free_slot # pre.last_free_slot
    /\ taken_slots >= 1

----------------------------------------------------------------------------
(* C20  Whenever push reaches its growth step, last_free_slot is None as   *)
(* next_free_slot is, so the Some(last_free_slot) arm of the splice is     *)
(* never executed in a state reached through insert, remove, push and      *)
(* clear.                                                                  *)

SpliceArmUnreached ==
    /\ next_free_slot = None => last_free_slot = None
    /\ Grew =>
          /\ pre.next_free_slot = None
          /\ pre.last_free_slot = None
          /\ Grown.next_free_slot = Some(pre.capacity)
          /\ Grown.last_free_slot = Some(capacity - 1)

\* a growth of a buffer whose last free slot, a reused one, had just been
\* filled
SpliceArmUnreachedWitness ==
    /\ Grew
    /\ pre.capacity >= 2
    /\ before.op = "insert" /\ before.ok
    /\ before.id # Some(pre.capacity - 1)

====
